---- MODULE Spec2Model ----
(***************************************************************************)
(* Dental clinic booking backend: src/backend/index.js (the eager-connect  *)
(* server) and src/backend/api/index.js (the lazy-connect serverless       *)
(* variant).  One state machine covers both; the variable `variant` says   *)
(* which file is deployed.                                                 *)
(*                                                                         *)
(* A handler is a chain of awaits.  One action models one await: the       *)
(* database (or bcrypt) operation that the await waits for, followed by    *)
(* the synchronous code of the handler up to the next await or response.   *)
(* Steps of different requests interleave freely between awaits.           *)
(*                                                                         *)
(* Values: a JavaScript string is a TLA+ string, with "" standing for a    *)
(* missing (undefined) or empty field, both falsy for the `!field` tests.  *)
(* A doctor's _id is a positive integer, 0 a missing doctorId.             *)
(***************************************************************************)
EXTENDS Naturals, Integers, Sequences, FiniteSets, TLC

VARIABLES
  variant,       \* "eager" (index.js) or "lazy" (api/index.js)
  tzWest,        \* the server's local time zone is behind UTC
  mongoUri,      \* process.env.MONGO_URI is set
  faults,        \* database operations can fail in this run
  conn,          \* the mongoose connection: "idle", "connecting", "up" or "failed"
  isConnected,   \* api/index.js:20, the lazy variant's flag
  users,         \* the users collection, in storage order
  doctors,       \* the doctors collection, in storage order
  appointments,  \* the appointments collection, in storage order
  now,           \* the clock Date.now reads (milliseconds)
  req,           \* the requests: position in the handler, body, locals, response
  seed,          \* the preloadDoctors invocations, by the caller that launched them
  latest         \* history: per email, the name and plain password last written to users

vars == <<variant, tzWest, mongoUri, faults, conn, isConnected, users, doctors, appointments, now, req, seed, latest>>

----------------------------------------------------------------------------
(* Bounds of the model. *)

\* requests per behaviour of the whole-program specification
MaxReq == 2
\* requests per behaviour of the accounts specification
MaxAcctReq == 2
\* requests per behaviour of the booking specification
MaxBookReq == 3
\* requests per behaviour of the listing specification
MaxListReq == 3
\* requests per behaviour of the guards specification
MaxGuardReq == 2
\* the clock advances at most this many milliseconds
MaxClock == 1

\* Requests of the frame specification.
MaxFrameReq == 2

----------------------------------------------------------------------------
(* Seed data of preloadDoctors. *)

Slot(d, s, e) == [day |-> d, startTime |-> s, endTime |-> e]

\* index.js:220-270
EagerSeed ==
  << [name |-> "Dr. Anjali Nair", specialization |-> "Cosmetic Dentistry", service |-> "Cosmetic Dentistry",
      availability |-> << Slot("Mon", "10:00", "14:00"), Slot("Wed", "10:00", "14:00"),
                          Slot("Fri", "10:00", "14:00") >>],
     [name |-> "Dr. Ravi Menon", specialization |-> "Orthodontics", service |-> "Orthodontics",
      availability |-> << Slot("Tue", "11:00", "16:00"), Slot("Thu", "11:00", "16:00") >>],
     [name |-> "Dr. Meera Thomas", specialization |-> "Pediatric Dentistry", service |-> "Cosmetic Dentistry",
      availability |-> << Slot("Mon", "14:00", "18:00"), Slot("Tue", "14:00", "18:00"),
                          Slot("Wed", "14:00", "18:00"), Slot("Thu", "14:00", "18:00"),
                          Slot("Fri", "14:00", "18:00") >>],
     [name |-> "Dr. Arun Das", specialization |-> "Dental Implants", service |-> "Dental Implants",
      availability |-> << Slot("Sat", "09:00", "13:00"), Slot("Sun", "09:00", "13:00") >>],
     [name |-> "Dr. Sneha Pillai", specialization |-> "Endodontics", service |-> "Cosmetic Dentistry",
      availability |-> << Slot("Wed", "15:00", "18:00"), Slot("Fri", "15:00", "18:00") >>] >>

\* api/index.js:227-231
LazySeed ==
  << [name |-> "Dr. Anjali Nair", specialization |-> "Cosmetic Dentistry", service |-> "Cosmetic Dentistry",
      availability |-> << Slot("Mon", "10:00", "14:00") >>] >>

SeedDoctors(v) == IF v = "eager" THEN EagerSeed ELSE LazySeed

\* Doctor.insertMany: the store gives each inserted document a fresh _id.
WithIds(docs, base) ==
  [i \in 1..Len(docs) |->
     [id |-> base + i, name |-> docs[i].name, specialization |-> docs[i].specialization,
      service |-> docs[i].service, availability |-> docs[i].availability]]

\* A doctors collection that was filled by other means than preloadDoctors (which
\* leaves a non-empty collection alone): the schema allows any list of windows,
\* here two windows for the same weekday.
CustomDoctors ==
  << [id |-> 1, name |-> "Dr. Split Shift", specialization |-> "General", service |-> "General",
      availability |-> << Slot("Mon", "09:00", "11:00"), Slot("Mon", "14:00", "15:00") >>] >>

----------------------------------------------------------------------------
(* Strings, dates and times. *)

\* The UTF-16 code units of the time strings of the model, digits as 0..9 and
\* ':' (which sorts after the digits) as 10.
CodeUnits(s) ==
  CASE s = "09:00" -> <<0, 9, 10, 0, 0>>
    [] s = "10:00" -> <<1, 0, 10, 0, 0>>
    [] s = "11:00" -> <<1, 1, 10, 0, 0>>
    [] s = "13:00" -> <<1, 3, 10, 0, 0>>
    [] s = "14:00" -> <<1, 4, 10, 0, 0>>
    [] s = "15:00" -> <<1, 5, 10, 0, 0>>
    [] s = "16:00" -> <<1, 6, 10, 0, 0>>
    [] s = "18:00" -> <<1, 8, 10, 0, 0>>
    [] s = "9:30"  -> <<9, 10, 3, 0>>
    [] s = "12"    -> <<1, 2>>
    [] OTHER       -> <<>>

RECURSIVE SeqLeq(_, _)
\* a <= b on sequences of code units, the way JavaScript compares strings
SeqLeq(a, b) ==
  IF a = <<>> THEN TRUE
  ELSE IF b = <<>> THEN FALSE
  ELSE IF Head(a) < Head(b) THEN TRUE
  ELSE IF Head(a) > Head(b) THEN FALSE
  ELSE SeqLeq(Tail(a), Tail(b))

\* time >= startTime && time <= endTime, on strings
StrLeq(a, b) == SeqLeq(CodeUnits(a), CodeUnits(b))

DayNames == <<"Mon", "Tue", "Wed", "Thu", "Fri", "Sat", "Sun">>

\* The calendar day a "YYYY-MM-DD" string names, counted from Monday 2024-01-01
\* (day 1); 0 for a string that is no date.
CalendarDay(date) ==
  CASE date = "2024-01-01" -> 1
    [] date = "2024-01-02" -> 2
    [] date = "2024-01-03" -> 3
    [] date = "2024-01-06" -> 6
    [] OTHER -> 0

\* The weekday of a calendar day.
WeekdayOf(day) == DayNames[((day + 6) % 7) + 1]

\* new Date(date).toLocaleDateString("en-US", { weekday: "short" }): a date-only
\* string is parsed as midnight UTC, and the weekday is taken in the server's
\* local time zone, where that instant still belongs to the previous day when
\* the zone is behind UTC.  A string that is no date gives "Invalid Date".
AppointmentDay(date, west) ==
  IF CalendarDay(date) = 0 THEN "Invalid Date"
  ELSE WeekdayOf(IF west THEN CalendarDay(date) - 1 ELSE CalendarDay(date))

----------------------------------------------------------------------------
(* bcrypt. *)

Salts == {1, 2}

NoHash == [salt |-> 0, of |-> ""]

\* bcrypt.hash(password, 10) with the salt it drew: the hash carries the salt and
\* is a one-way image of (salt, password).
Hash(password, salt) == [salt |-> salt, of |-> password]

\* bcrypt.compare(password, hash): hashes password with the hash's own salt.
Compare(password, hash) == Hash(password, hash.salt) = hash

\* bcrypt throws on an argument that is no string (a missing field).
BcryptThrows(password) == password = ""

----------------------------------------------------------------------------
(* Queries on the collections. *)

Indices(s) == 1..Len(s)

Min(S) == CHOOSE x \in S : \A y \in S : x <= y

\* User.findOne({ email }): the position of the first match, 0 for null.
FindUser(email) ==
  LET hit == {i \in Indices(users) : users[i].email = email}
  IN  IF hit = {} THEN 0 ELSE Min(hit)

\* Mutant: the users collection has no unique index on email.
DuplicateKeyNoIndex(email) == FALSE

\* The unique index on email (userSchema): save is refused with a duplicate-key
\* error when the email is already stored.
DuplicateKey(email) == \E i \in Indices(users) : users[i].email = email

\* Doctor.findById(doctorId): the position of the match, 0 for null.
FindDoctorById(id) ==
  LET hit == {i \in Indices(doctors) : doctors[i].id = id}
  IN  IF hit = {} THEN 0 ELSE Min(hit)

\* doctor.availability.find(slot => slot.day === appointmentDay): the position of
\* the first match in list order, 0 for undefined.
AvailableSlot(availability, appointmentDay) ==
  LET hit == {i \in Indices(availability) : availability[i].day = appointmentDay}
  IN  IF hit = {} THEN 0 ELSE Min(hit)

\* time >= availableSlot.startTime && time <= availableSlot.endTime
IsTimeValid(time, slot) == StrLeq(slot.startTime, time) /\ StrLeq(time, slot.endTime)

\* Appointment.findOne({ doctorId, date, time }) is not null
ExistingAppointment(doctorId, date, time) ==
  \E i \in Indices(appointments) :
     /\ appointments[i].doctorId = doctorId
     /\ appointments[i].date = date
     /\ appointments[i].time = time

\* new Appointment({...}): createdAt defaults to Date.now() when the document is
\* constructed.
NewAppointment(b, clock) ==
  [doctorId |-> b.doctorId, doctorName |-> b.doctorName, service |-> b.service,
   userName |-> b.userName, userEmail |-> b.userEmail, date |-> b.date, time |-> b.time,
   createdAt |-> clock]

NoAppointment == NewAppointment(
  [doctorId |-> 0, doctorName |-> "", service |-> "", userName |-> "", userEmail |-> "",
   date |-> "", time |-> ""], 0)

\* The bijections of 1..n.
Perms(n) == {p \in [1..n -> 1..n] : \A i \in 1..n : \E j \in 1..n : p[j] = i}

\* The records in the order of their insertion: a find() without the sort.
InsertionOrder(s) == {s}

\* Appointment.find().sort({ createdAt: -1 }): every stored record once, createdAt
\* descending; the store does not fix the order of records with equal keys.
SortedByCreatedAtDesc(s) ==
  { [i \in Indices(s) |-> s[p[i]]] : p \in
      {q \in Perms(Len(s)) : \A i, j \in Indices(s) : i < j => s[q[i]].createdAt >= s[q[j]].createdAt} }

----------------------------------------------------------------------------
(* Requests. *)

NoBody ==
  [name |-> "", email |-> "", password |-> "", doctorId |-> 0, doctorName |-> "",
   service |-> "", userName |-> "", userEmail |-> "", date |-> "", time |-> ""]

NoUser == [name |-> "", email |-> ""]

NoSeen == [name |-> "", password |-> ""]

\* A request that has not arrived.  pc is the await the handler is suspended at;
\* status 0 means no response yet.  uidx, hashed and appt are the handler's
\* locals (user, hashedPassword, appointment).  History fields: failed (a step of
\* the handler threw), after (the requests answered before this one arrived),
\* seen (what `latest` held for the email when the handler's findOne ran).
IdleReq ==
  [pc |-> "idle", route |-> "", body |-> NoBody, status |-> 0, msg |-> <<>>,
   user |-> NoUser, list |-> <<>>, uidx |-> 0, hashed |-> NoHash, appt |-> NoAppointment,
   failed |-> FALSE, after |-> {}, seen |-> NoSeen]

Reqs == DOMAIN req

\* res.status(status).json({ message }): the handler is over.
Reply(rec, status, msg) == [rec EXCEPT !.pc = "done", !.status = status, !.msg = msg]

\* The catch block of every handler.
ServerError(rec) == [Reply(rec, 500, <<"Server error">>) EXCEPT !.failed = TRUE]

\* A rejection that leaves the handler: no response is ever sent.
Escapes(rec) == [rec EXCEPT !.pc = "crashed", !.failed = TRUE]

\* The outcomes of an awaited database operation: it can only succeed on an open
\* connection; it fails when the store or the network does, or on the buffering
\* timeout of a connection that is not open.
Outcomes == IF conn # "up" THEN {FALSE} ELSE IF faults THEN {TRUE, FALSE} ELSE {TRUE}

\* if (!email || !password), index.js:124 (the lazy variant has no such test)
ResetFieldsMissing(b) == variant = "eager" /\ (b.email = "" \/ b.password = "")

\* if (!doctorId || !userName || !userEmail || !date || !time)
BookingFieldsMissing(b) ==
  b.doctorId = 0 \/ b.userName = "" \/ b.userEmail = "" \/ b.date = "" \/ b.time = ""

\* The synchronous code of a handler from its entry (after connectDB in the lazy
\* variant) to its first await.
Enter(rec) ==
  CASE rec.route = "register"     -> [rec EXCEPT !.pc = "findOne"]
    [] rec.route = "signin"       -> [rec EXCEPT !.pc = "findOne"]
    [] rec.route = "doctors"      -> [rec EXCEPT !.pc = "find"]
    [] rec.route = "resetpassword" ->
         IF ResetFieldsMissing(rec.body)
         THEN Reply(rec, 400, <<"Email and password are required">>)
         ELSE [rec EXCEPT !.pc = "findOne"]
    [] rec.route = "appointment"  ->
         IF BookingFieldsMissing(rec.body)
         THEN Reply(rec, 400, <<"Missing required fields">>)
         ELSE [rec EXCEPT !.pc = "findById"]
    [] rec.route = "appointments" -> [rec EXCEPT !.pc = "find"]

\* connectDB returns at once: already connected, or no MONGO_URI (api/index.js:23-30).
ConnectReturnsAtOnce == isConnected \/ ~mongoUri

\* A request arrives.  Requests are numbered in the order of arrival.
Arrive(r, route, b) ==
  /\ req[r].pc = "idle"
  /\ \A q \in Reqs : q < r => req[q].pc # "idle"
  /\ LET rec == [req[r] EXCEPT !.route = route, !.body = b,
                               !.after = {q \in Reqs : req[q].pc = "done"}]
     IN  req' = [req EXCEPT ![r] =
                   IF variant = "lazy" /\ ~ConnectReturnsAtOnce
                   THEN [rec EXCEPT !.pc = "connect"]
                   ELSE Enter(rec)]
  /\ UNCHANGED <<variant, tzWest, mongoUri, faults, conn, isConnected, users, doctors, appointments,
                 now, seed, latest>>

\* await mongoose.connect(MONGO_URI) in connectDB, then isConnected = true and
\* preloadDoctors() is launched without being awaited; a rejection of connect
\* leaves connectDB and the handler, whose call is outside the try.
Connect(r) ==
  /\ req[r].pc = "connect"
  /\ \E ok \in BOOLEAN :
       IF ok
       THEN /\ conn' = "up"
            /\ isConnected' = TRUE
            /\ seed' = [seed EXCEPT ![r] = "count"]
            /\ req' = [req EXCEPT ![r] = Enter(req[r])]
       ELSE /\ req' = [req EXCEPT ![r] = Escapes(req[r])]
            /\ UNCHANGED <<conn, isConnected, seed>>
  /\ UNCHANGED <<variant, tzWest, mongoUri, faults, users, doctors, appointments, now, latest>>

\* mongoose.connect(MONGO_URI).then(preloadDoctors).catch(log) at startup of
\* index.js.
EagerConnect ==
  /\ variant = "eager"
  /\ conn = "connecting"
  /\ \E ok \in BOOLEAN :
       IF ok
       THEN conn' = "up" /\ seed' = [seed EXCEPT ![0] = "count"]
       ELSE conn' = "failed" /\ UNCHANGED seed
  /\ UNCHANGED <<variant, tzWest, mongoUri, faults, isConnected, users, doctors, appointments, now,
                 req, latest>>

\* preloadDoctors: const count = await Doctor.countDocuments(); if (count > 0) return;
SeedCount(c) ==
  /\ seed[c] = "count"
  /\ \E ok \in Outcomes :
       seed' = [seed EXCEPT ![c] =
                  IF ~ok THEN "failed" ELSE IF Len(doctors) > 0 THEN "done" ELSE "insert"]
  /\ UNCHANGED <<variant, tzWest, mongoUri, faults, conn, isConnected, users, doctors, appointments,
                 now, req, latest>>

\* preloadDoctors: await Doctor.insertMany(doctors)
SeedInsert(c) ==
  /\ seed[c] = "insert"
  /\ \E ok \in Outcomes :
       IF ok
       THEN /\ doctors' = doctors \o WithIds(SeedDoctors(variant), Len(doctors))
            /\ seed' = [seed EXCEPT ![c] = "done"]
       ELSE /\ seed' = [seed EXCEPT ![c] = "failed"]
            /\ UNCHANGED doctors
  /\ UNCHANGED <<variant, tzWest, mongoUri, faults, conn, isConnected, users, appointments, now, req,
                 latest>>

\* Date.now advances.
Tick ==
  /\ now < MaxClock
  /\ now' = now + 1
  /\ UNCHANGED <<variant, tzWest, mongoUri, faults, conn, isConnected, users, doctors, appointments,
                 req, seed, latest>>

\* What no handler step after connectDB touches.
env == <<variant, tzWest, mongoUri, faults, conn, isConnected, now, seed>>

At(r, route, pc) == req[r].route = route /\ req[r].pc = pc

----------------------------------------------------------------------------
(* POST /register *)

\* const existingUser = await User.findOne({ email }); if (existingUser) 409
RegisterFindOne(r) ==
  /\ At(r, "register", "findOne")
  /\ \E ok \in Outcomes :
       req' = [req EXCEPT ![r] =
                 IF ~ok THEN ServerError(@)
                 ELSE IF FindUser(@.body.email) # 0
                 THEN Reply([@ EXCEPT !.seen = latest[req[r].body.email]], 409, <<"User already exists">>)
                 ELSE [@ EXCEPT !.pc = "hash", !.seen = latest[req[r].body.email]]]
  /\ UNCHANGED <<env, users, doctors, appointments, latest>>

\* const hashedPassword = await bcrypt.hash(password, 10); new User({...})
RegisterHash(r) ==
  /\ At(r, "register", "hash")
  /\ \E salt \in Salts :
       req' = [req EXCEPT ![r] =
                 IF BcryptThrows(@.body.password) THEN ServerError(@)
                 ELSE [@ EXCEPT !.pc = "save", !.hashed = Hash(req[r].body.password, salt)]]
  /\ UNCHANGED <<env, users, doctors, appointments, latest>>

\* The insert of newUser.save(): the store refuses a second record with the email.
InsertUser(rec) ==
  Append(users, [name |-> rec.body.name, email |-> rec.body.email, password |-> rec.hashed])

\* await newUser.save(); 201
RegisterSave(r) ==
  /\ At(r, "register", "save")
  /\ \E ok \in Outcomes :
       IF ok /\ ~DuplicateKey(req[r].body.email)
       THEN /\ users' = InsertUser(req[r])
            /\ latest' = [latest EXCEPT ![req[r].body.email] =
                            [name |-> req[r].body.name, password |-> req[r].body.password]]
            /\ req' = [req EXCEPT ![r] = Reply(@, 201, <<"User registered successfully">>)]
       ELSE /\ req' = [req EXCEPT ![r] = ServerError(@)]
            /\ UNCHANGED <<users, latest>>
  /\ UNCHANGED <<env, doctors, appointments>>

----------------------------------------------------------------------------
(* POST /signin *)

\* const user = await User.findOne({ email }); if (!user) 401
SignInFindOne(r) ==
  /\ At(r, "signin", "findOne")
  /\ \E ok \in Outcomes :
       req' = [req EXCEPT ![r] =
                 IF ~ok THEN ServerError(@)
                 ELSE IF FindUser(@.body.email) = 0
                 THEN Reply([@ EXCEPT !.seen = latest[req[r].body.email]], 401, <<"Invalid email or password">>)
                 ELSE [@ EXCEPT !.pc = "compare", !.uidx = FindUser(req[r].body.email),
                                !.hashed = users[FindUser(req[r].body.email)].password,
                                !.seen = latest[req[r].body.email]]]
  /\ UNCHANGED <<env, users, doctors, appointments, latest>>

\* The body of the 200 response: user: { name: user.name, email: user.email }.
SignInUser(rec) == [name |-> users[rec.uidx].name, email |-> users[rec.uidx].email]

\* const isMatch = await bcrypt.compare(password, user.password); 401 or 200
SignInCompare(r) ==
  /\ At(r, "signin", "compare")
  /\ req' = [req EXCEPT ![r] =
               IF BcryptThrows(@.body.password) THEN ServerError(@)
               ELSE IF ~Compare(@.body.password, @.hashed)
               THEN Reply(@, 401, <<"Invalid email or password">>)
               ELSE [Reply(@, 200, <<"Sign-in successful">>) EXCEPT !.user = SignInUser(req[r])]]
  /\ UNCHANGED <<env, users, doctors, appointments, latest>>

----------------------------------------------------------------------------
(* POST /resetpassword *)

\* const user = await User.findOne({ email }); if (!user) 404
ResetFindOne(r) ==
  /\ At(r, "resetpassword", "findOne")
  /\ \E ok \in Outcomes :
       req' = [req EXCEPT ![r] =
                 IF ~ok THEN ServerError(@)
                 ELSE IF FindUser(@.body.email) = 0
                 THEN Reply([@ EXCEPT !.seen = latest[req[r].body.email]], 404, <<"User not found">>)
                 ELSE [@ EXCEPT !.pc = "hash", !.uidx = FindUser(req[r].body.email),
                                !.seen = latest[req[r].body.email]]]
  /\ UNCHANGED <<env, users, doctors, appointments, latest>>

\* const hashedPassword = await bcrypt.hash(password, 10); user.password = hashedPassword
ResetHash(r) ==
  /\ At(r, "resetpassword", "hash")
  /\ \E salt \in Salts :
       req' = [req EXCEPT ![r] =
                 IF BcryptThrows(@.body.password) THEN ServerError(@)
                 ELSE [@ EXCEPT !.pc = "save", !.hashed = Hash(req[r].body.password, salt)]]
  /\ UNCHANGED <<env, users, doctors, appointments, latest>>

\* Mutant: user.save() writes nothing.
UpdatePasswordLost(rec) == users

\* Mutant: the update is sent without the _id filter and lands on the first record.
UpdatePasswordOfFirst(rec) == [users EXCEPT ![1].password = rec.hashed]

\* The update of user.save(): the loaded document's changed path, password, is
\* written to the record with its _id.
UpdatePassword(rec) == [users EXCEPT ![rec.uidx].password = rec.hashed]

\* await user.save(); 200
ResetSave(r) ==
  /\ At(r, "resetpassword", "save")
  /\ \E ok \in Outcomes :
       IF ok
       THEN /\ users' = UpdatePassword(req[r])
            /\ latest' = [latest EXCEPT ![users[req[r].uidx].email].password = req[r].body.password]
            /\ req' = [req EXCEPT ![r] = Reply(@, 200, <<"Password reset successfully">>)]
       ELSE /\ req' = [req EXCEPT ![r] = ServerError(@)]
            /\ UNCHANGED <<users, latest>>
  /\ UNCHANGED <<env, doctors, appointments>>

----------------------------------------------------------------------------
(* GET /doctors *)

\* const doctors = await Doctor.find(); res.json(doctors)
DoctorsFind(r) ==
  /\ At(r, "doctors", "find")
  /\ \E ok \in Outcomes :
       req' = [req EXCEPT ![r] =
                 IF ~ok THEN ServerError(@)
                 ELSE [Reply(@, 200, <<>>) EXCEPT !.list = doctors]]
  /\ UNCHANGED <<env, users, doctors, appointments, latest>>

----------------------------------------------------------------------------
(* POST /appointment *)

\* The response messages of the two files.
NotAvailableMsg(day) ==
  IF variant = "eager" THEN <<"Doctor is not available on ", day>>
  ELSE <<"Doctor not available on ", day>>

WindowMsg(day, slot) ==
  IF variant = "eager"
  THEN <<"Doctor is available on ", day, " only between ", slot.startTime, " and ", slot.endTime>>
  ELSE <<"Doctor available ", slot.startTime, "-", slot.endTime>>

SlotTakenMsg ==
  IF variant = "eager" THEN <<"Doctor already has an appointment at this time">>
  ELSE <<"Slot unavailable">>

BookedMsg ==
  IF variant = "eager" THEN <<"Appointment booked successfully">> ELSE <<"Appointment booked">>

\* The handler from the doctor lookup to the duplicate lookup: 404 without the
\* doctor, 400 without a window for the day, 400 outside the window, else the
\* handler goes on to await Appointment.findOne.
AfterFindById(rec) ==
  LET b    == rec.body
      d    == FindDoctorById(b.doctorId)
      day  == AppointmentDay(b.date, tzWest)
      k    == AvailableSlot(doctors[d].availability, day)
      slot == doctors[d].availability[k]
  IN  IF d = 0 THEN Reply(rec, 404, <<"Doctor not found">>)
      ELSE IF k = 0 THEN Reply(rec, 400, NotAvailableMsg(day))
      ELSE IF ~IsTimeValid(b.time, slot) THEN Reply(rec, 400, WindowMsg(day, slot))
      ELSE [rec EXCEPT !.pc = "findOne"]

\* const doctor = await Doctor.findById(doctorId); ... the day and window tests
AppointmentFindById(r) ==
  /\ At(r, "appointment", "findById")
  /\ \E ok \in Outcomes :
       req' = [req EXCEPT ![r] = IF ~ok THEN ServerError(@) ELSE AfterFindById(@)]
  /\ UNCHANGED <<env, users, doctors, appointments, latest>>

\* The handler from the duplicate lookup to the save: 409 when the slot is
\* taken, else the appointment document is constructed.
AfterFindOne(rec) ==
  IF ExistingAppointment(rec.body.doctorId, rec.body.date, rec.body.time)
  THEN Reply(rec, 409, SlotTakenMsg)
  ELSE [rec EXCEPT !.pc = "save", !.appt = NewAppointment(rec.body, now)]

\* const existingAppointment = await Appointment.findOne({ doctorId, date, time })
AppointmentFindOne(r) ==
  /\ At(r, "appointment", "findOne")
  /\ \E ok \in Outcomes :
       req' = [req EXCEPT ![r] = IF ~ok THEN ServerError(@) ELSE AfterFindOne(@)]
  /\ UNCHANGED <<env, users, doctors, appointments, latest>>

\* The insert of appointment.save(): the collection has no index but _id.
InsertAppointment(rec) == Append(appointments, rec.appt)

\* await appointment.save(); 201
AppointmentSave(r) ==
  /\ At(r, "appointment", "save")
  /\ \E ok \in Outcomes :
       IF ok
       THEN /\ appointments' = InsertAppointment(req[r])
            /\ req' = [req EXCEPT ![r] = Reply(@, 201, BookedMsg)]
       ELSE /\ req' = [req EXCEPT ![r] = ServerError(@)]
            /\ UNCHANGED appointments
  /\ UNCHANGED <<env, users, doctors, latest>>

----------------------------------------------------------------------------
(* GET /appointments *)

\* const appointments = await Appointment.find().sort({ createdAt: -1 })
AppointmentsFind(r) ==
  /\ At(r, "appointments", "find")
  /\ \E ok \in Outcomes :
       IF ok
       THEN \E l \in SortedByCreatedAtDesc(appointments) :
              req' = [req EXCEPT ![r] = [Reply(@, 200, <<>>) EXCEPT !.list = l]]
       ELSE req' = [req EXCEPT ![r] = ServerError(@)]
  /\ UNCHANGED <<env, users, doctors, appointments, latest>>

----------------------------------------------------------------------------
(* Request inputs. *)

Acct(name, email, password) ==
  [NoBody EXCEPT !.name = name, !.email = email, !.password = password]

Book(doctorId, doctorName, userName, date, time) ==
  [NoBody EXCEPT !.doctorId = doctorId, !.doctorName = doctorName,
                 !.service = IF doctorName = "" THEN "" ELSE "Cosmetic Dentistry",
                 !.userName = userName, !.userEmail = "asha@example.com",
                 !.date = date, !.time = time]

Emails == {"asha@example.com", "bina@example.com"}

NoLatest == [e \in Emails \cup {""} |-> NoSeen]

\* A user stored by an earlier run of the service.
Bina == [name |-> "Bina", email |-> "bina@example.com", password |-> Hash("pw0", 1)]

BinaLatest == [NoLatest EXCEPT !["bina@example.com"] = [name |-> "Bina", password |-> "pw0"]]

\* Inputs of the whole-program specification: every route, with and without the
\* fields its handler tests.
AllInputs ==
  { <<"register", Acct("Asha", "asha@example.com", "pw1")>>,
    <<"signin", Acct("", "asha@example.com", "pw1")>>,
    <<"resetpassword", Acct("", "asha@example.com", "pw2")>>,
    <<"resetpassword", Acct("", "asha@example.com", "")>>,
    <<"doctors", NoBody>>,
    <<"appointment", Book(1, "Dr. Anjali Nair", "Asha", "2024-01-01", "11:00")>>,
    <<"appointment", Book(1, "Dr. Anjali Nair", "", "2024-01-01", "11:00")>>,
    <<"appointments", NoBody>> }

\* Inputs of the frame specification: every route, and an input of each answer
\* that rejects (400, 401, 404, 409 by repetition).
FrameInputs ==
  { <<"register", Acct("Asha", "asha@example.com", "pw1")>>,
    <<"signin", Acct("", "asha@example.com", "pw1")>>,
    <<"resetpassword", Acct("", "asha@example.com", "pw2")>>,
    <<"doctors", NoBody>>,
    <<"appointment", Book(1, "Dr. Anjali Nair", "Asha", "2024-01-01", "11:00")>>,
    <<"appointment", Book(1, "Dr. Anjali Nair", "", "2024-01-01", "11:00")>>,
    <<"appointments", NoBody>> }

\* Inputs of the accounts specification.
AcctInputs ==
  ({"register"} \X {Acct("Asha", "asha@example.com", p) : p \in {"pw1", ""}})
  \cup ({"signin"} \X {Acct("", "asha@example.com", "pw1"), Acct("", "asha@example.com", "pw2"),
                       Acct("", "bina@example.com", "pw0"), Acct("", "bina@example.com", "pw2"),
                       Acct("", "bina@example.com", "")})
  \cup ({"resetpassword"} \X {Acct("", "asha@example.com", "pw2"), Acct("", "bina@example.com", "pw2"),
                              Acct("", "", "pw2"), Acct("", "bina@example.com", "")})

\* Inputs of the booking specification: requests that contend for a slot.
BookInputs ==
  {"appointment"} \X
    {Book(1, "Dr. Anjali Nair", "Asha", d, "11:00") : d \in {"2024-01-01", "2024-01-02"}}

\* Inputs of the listing specification: bookings of two slots, and the listing.
ListInputs ==
  ({"appointment"} \X
     {Book(1, "Dr. Anjali Nair", "Asha", "2024-01-01", t) : t \in {"11:00", "14:00"}})
  \cup {<<"appointments", NoBody>>}

\* Inputs of the guards specification: every guard of POST /appointment can fail,
\* alone and together with later ones.
GuardInputs ==
  {"appointment"} \X
    ({Book(1, n, "Asha", d, t) : n \in {"", "Dr. Anjali Nair"},
                                 d \in {"2024-01-01", "2024-01-02", "soon"},
                                 t \in {"09:00", "11:00", "14:00", "9:30"}}
     \cup {Book(i, "", u, d, t) : i \in {0, 7}, u \in {"", "Asha"},
                                  d \in {"2024-01-01", "2024-01-02"}, t \in {"09:00", "11:00"}}
     \cup {Book(1, "", "", d, t) : d \in {"2024-01-01", "2024-01-02"}, t \in {"09:00", "11:00"}}
     \cup {Book(1, "", "Asha", "", "11:00"), Book(1, "", "Asha", "2024-01-01", "")})

----------------------------------------------------------------------------
(* Specifications. *)

\* The whole program: start-up or lazy connection, seeding, and the six routes,
\* on a database that holds one user of an earlier run.
Init ==
  /\ variant \in {"eager", "lazy"}
  /\ tzWest = FALSE
  /\ mongoUri \in (IF variant = "lazy" THEN BOOLEAN ELSE {TRUE})
  /\ faults = TRUE
  /\ conn = IF variant = "eager" THEN "connecting" ELSE "idle"
  /\ isConnected = FALSE
  /\ users = <<Bina>>
  /\ latest = BinaLatest
  /\ doctors = <<>>
  /\ appointments = <<>>
  /\ now = 0
  /\ req = [r \in 1..MaxReq |-> IdleReq]
  /\ seed = [c \in 0..MaxReq |-> "none"]

Next ==
  \/ EagerConnect
  \/ \E c \in DOMAIN seed : SeedCount(c)
  \/ \E c \in DOMAIN seed : SeedInsert(c)
  \/ \E r \in Reqs : \E in \in AllInputs : Arrive(r, in[1], in[2])
  \/ \E r \in Reqs : Connect(r)
  \/ \E r \in Reqs : RegisterFindOne(r)
  \/ \E r \in Reqs : RegisterHash(r)
  \/ \E r \in Reqs : RegisterSave(r)
  \/ \E r \in Reqs : SignInFindOne(r)
  \/ \E r \in Reqs : SignInCompare(r)
  \/ \E r \in Reqs : ResetFindOne(r)
  \/ \E r \in Reqs : ResetHash(r)
  \/ \E r \in Reqs : ResetSave(r)
  \/ \E r \in Reqs : DoctorsFind(r)
  \/ \E r \in Reqs : AppointmentFindById(r)
  \/ \E r \in Reqs : AppointmentFindOne(r)
  \/ \E r \in Reqs : AppointmentSave(r)
  \/ \E r \in Reqs : AppointmentsFind(r)

Spec == Init /\ [][Next]_vars

\* The whole program on a database that answers every operation once the
\* connection is open (the connection itself can still fail).
InitFrame ==
  /\ variant \in {"eager", "lazy"}
  /\ tzWest = FALSE
  /\ mongoUri = TRUE
  /\ faults = FALSE
  /\ conn = IF variant = "eager" THEN "connecting" ELSE "idle"
  /\ isConnected = FALSE
  /\ users = <<Bina>>
  /\ latest = BinaLatest
  /\ doctors = <<>>
  /\ appointments = <<>>
  /\ now = 0
  /\ req = [r \in 1..MaxFrameReq |-> IdleReq]
  /\ seed = [c \in 0..MaxFrameReq |-> "none"]

NextFrame ==
  \/ EagerConnect
  \/ \E c \in DOMAIN seed : SeedCount(c)
  \/ \E c \in DOMAIN seed : SeedInsert(c)
  \/ \E r \in Reqs : \E in \in FrameInputs : Arrive(r, in[1], in[2])
  \/ \E r \in Reqs : Connect(r)
  \/ \E r \in Reqs : RegisterFindOne(r)
  \/ \E r \in Reqs : RegisterHash(r)
  \/ \E r \in Reqs : RegisterSave(r)
  \/ \E r \in Reqs : SignInFindOne(r)
  \/ \E r \in Reqs : SignInCompare(r)
  \/ \E r \in Reqs : ResetFindOne(r)
  \/ \E r \in Reqs : ResetHash(r)
  \/ \E r \in Reqs : ResetSave(r)
  \/ \E r \in Reqs : DoctorsFind(r)
  \/ \E r \in Reqs : AppointmentFindById(r)
  \/ \E r \in Reqs : AppointmentFindOne(r)
  \/ \E r \in Reqs : AppointmentSave(r)
  \/ \E r \in Reqs : AppointmentsFind(r)

SpecFrame == InitFrame /\ [][NextFrame]_vars

\* The service is up: connected, and the doctors seeded by preloadDoctors.
Serving ==
  /\ variant \in {"eager", "lazy"}
  /\ mongoUri = TRUE
  /\ conn = "up"
  /\ isConnected = (variant = "lazy")
  /\ appointments = <<>>
  /\ now = 0
  /\ seed = [c \in {0} |-> "done"]

\* The account routes, on an empty or a used users collection.
InitAccounts ==
  /\ Serving
  /\ faults = TRUE
  /\ tzWest = FALSE
  /\ \/ users = <<>> /\ latest = NoLatest
     \/ users = <<Bina>> /\ latest = BinaLatest
  /\ doctors = WithIds(SeedDoctors(variant), 0)
  /\ req = [r \in 1..MaxAcctReq |-> IdleReq]

NextAccounts ==
  \/ \E r \in Reqs : \E in \in AcctInputs : Arrive(r, in[1], in[2])
  \/ \E r \in Reqs : RegisterFindOne(r)
  \/ \E r \in Reqs : RegisterHash(r)
  \/ \E r \in Reqs : RegisterSave(r)
  \/ \E r \in Reqs : SignInFindOne(r)
  \/ \E r \in Reqs : SignInCompare(r)
  \/ \E r \in Reqs : ResetFindOne(r)
  \/ \E r \in Reqs : ResetHash(r)
  \/ \E r \in Reqs : ResetSave(r)

SpecAccounts == InitAccounts /\ [][NextAccounts]_vars

\* Concurrent bookings of the seeded doctors.
InitBooking ==
  /\ Serving
  /\ faults = TRUE
  /\ tzWest \in BOOLEAN
  /\ users = <<>>
  /\ latest = NoLatest
  /\ doctors = WithIds(SeedDoctors(variant), 0)
  /\ req = [r \in 1..MaxBookReq |-> IdleReq]

NextBooking ==
  \/ \E r \in Reqs : \E in \in BookInputs : Arrive(r, in[1], in[2])
  \/ \E r \in Reqs : AppointmentFindById(r)
  \/ \E r \in Reqs : AppointmentFindOne(r)
  \/ \E r \in Reqs : AppointmentSave(r)

SpecBooking == InitBooking /\ [][NextBooking]_vars

\* Bookings and listings, with the clock.
InitListing ==
  /\ Serving
  /\ variant = "eager"
  /\ faults = FALSE
  /\ tzWest = FALSE
  /\ users = <<>>
  /\ latest = NoLatest
  /\ doctors = WithIds(SeedDoctors(variant), 0)
  /\ req = [r \in 1..MaxListReq |-> IdleReq]

NextListing ==
  \/ Tick
  \/ \E r \in Reqs : \E in \in ListInputs : Arrive(r, in[1], in[2])
  \/ \E r \in Reqs : AppointmentFindById(r)
  \/ \E r \in Reqs : AppointmentFindOne(r)
  \/ \E r \in Reqs : AppointmentSave(r)
  \/ \E r \in Reqs : AppointmentsFind(r)

SpecListing == InitListing /\ [][NextListing]_vars

\* One booking at a time, over inputs that fail every guard, on the seeded
\* doctors or on a doctors collection filled by other means.
InitGuards ==
  /\ Serving
  /\ faults = TRUE
  /\ tzWest \in BOOLEAN
  /\ users = <<>>
  /\ latest = NoLatest
  /\ doctors \in {WithIds(SeedDoctors(variant), 0), CustomDoctors}
  /\ req = [r \in 1..MaxGuardReq |-> IdleReq]

NoneInFlight == \A q \in Reqs : req[q].pc \in {"idle", "done"}

NextGuards ==
  \/ \E r \in Reqs : \E in \in GuardInputs : NoneInFlight /\ Arrive(r, in[1], in[2])
  \/ \E r \in Reqs : AppointmentFindById(r)
  \/ \E r \in Reqs : AppointmentFindOne(r)
  \/ \E r \in Reqs : AppointmentSave(r)

SpecGuards == InitGuards /\ [][NextGuards]_vars

----------------------------------------------------------------------------
(* Claims about bookings. *)

SameSlot(a, b) == a.doctorId = b.doctorId /\ a.date = b.date /\ a.time = b.time

\* The stored appointments of the slot of body b.
InSlot(b) == {i \in Indices(appointments) : SameSlot(appointments[i], b)}

Booked(r) == req[r].route = "appointment" /\ req[r].pc = "done" /\ req[r].status = 201

\* C1: no two stored appointments have the same (doctorId, date, time), under
\* any interleaving of the steps of POST /appointment requests.
C1_SlotUnique ==
  \A i, j \in Indices(appointments) :
     i # j => ~SameSlot(appointments[i], appointments[j])

\* C2: once a POST /appointment for a slot has been answered 201, every later
\* POST /appointment for that slot that arrives after that answer (and whose
\* steps do not fail) is answered 409, and exactly one record of the slot is
\* stored.
C2_SecondBookingConflicts ==
  \A r1, r2 \in Reqs :
     ( /\ Booked(r1)
       /\ r1 \in req[r2].after
       /\ req[r2].route = "appointment" /\ req[r2].pc = "done" /\ ~req[r2].failed
       /\ SameSlot(req[r1].body, req[r2].body) )
     => /\ req[r2].status = 409
        /\ Cardinality(InSlot(req[r1].body)) = 1

\* The availability windows of the doctor with the id that cover the calendar
\* weekday of the date and the time.
CoveringWindows(doctorId, date, time) ==
  {w \in UNION {{doctors[d].availability[k] : k \in Indices(doctors[d].availability)} :
                  d \in {e \in Indices(doctors) : doctors[e].id = doctorId}} :
     /\ CalendarDay(date) # 0
     /\ w.day = WeekdayOf(CalendarDay(date))
     /\ StrLeq(w.startTime, time) /\ StrLeq(time, w.endTime)}

\* C9: every stored appointment lies inside a window of its doctor: the doctor
\* exists, and has an availability entry for the weekday of the appointment's
\* date with startTime <= time <= endTime.
C9_StoredInsideAvailability ==
  \A i \in Indices(appointments) :
     CoveringWindows(appointments[i].doctorId, appointments[i].date, appointments[i].time) # {}

\* The outcome C8 states for a booking with body b on the stored appointments
\* `stored`: that of the first failing guard, in the order missing fields,
\* unknown doctor, no window for the weekday of the date, time outside the first
\* such window, slot taken; 201 when none fails.
ClaimedOutcome(b, stored) ==
  LET d   == FindDoctorById(b.doctorId)
      day == IF CalendarDay(b.date) = 0 THEN "none" ELSE WeekdayOf(CalendarDay(b.date))
      k   == AvailableSlot(doctors[d].availability, day)
      w   == doctors[d].availability[k]
  IN  IF BookingFieldsMissing(b) THEN 400
      ELSE IF d = 0 THEN 404
      ELSE IF k = 0 THEN 400
      ELSE IF ~(StrLeq(w.startTime, b.time) /\ StrLeq(b.time, w.endTime)) THEN 400
      ELSE IF \E i \in Indices(stored) : SameSlot(stored[i], b) THEN 409
      ELSE 201

\* The stored appointments before request r, the last to arrive, was handled.
StoredBefore(r) ==
  IF req[r].status = 201 /\ appointments # <<>>
  THEN SubSeq(appointments, 1, Len(appointments) - 1)
  ELSE appointments

LastArrived(r) == \A q \in Reqs : q > r => req[q].pc = "idle"

\* C8: the answer of POST /appointment is that of the first failing guard in the
\* stated order, and 201 with exactly one inserted record (the request's) when
\* none fails.
C8_GuardOrder ==
  \A r \in Reqs :
     (req[r].route = "appointment" /\ req[r].pc = "done" /\ ~req[r].failed /\ LastArrived(r))
     => /\ req[r].status = ClaimedOutcome(req[r].body, StoredBefore(r))
        /\ req[r].status = 201 =>
             /\ appointments # <<>>
             /\ SameSlot(appointments[Len(appointments)], req[r].body)

----------------------------------------------------------------------------
(* Claims about seeding and failures. *)

\* The stored doctor records that are copies of seed doctor k.
CopiesOfSeed(k) ==
  {i \in Indices(doctors) :
     /\ doctors[i].name = SeedDoctors(variant)[k].name
     /\ doctors[i].specialization = SeedDoctors(variant)[k].specialization
     /\ doctors[i].service = SeedDoctors(variant)[k].service
     /\ doctors[i].availability = SeedDoctors(variant)[k].availability}

\* C6: the doctors collection holds each seed doctor at most once, whatever the
\* number and interleaving of preloadDoctors invocations.
C6_SeededOnce ==
  \A k \in Indices(SeedDoctors(variant)) : Cardinality(CopiesOfSeed(k)) <= 1

\* C7: a request whose handler had a failing step (the connection step of
\* connectDB included) is answered, with 500 and the message "Server error";
\* no failure leaves the handler unanswered.
C7_FailureAnswered500 ==
  \A r \in Reqs :
     req[r].failed =>
       /\ req[r].pc = "done"
       /\ req[r].status = 500
       /\ req[r].msg = <<"Server error">>

----------------------------------------------------------------------------
(* Claims about accounts. *)

Answered(r, route) == req[r].route = route /\ req[r].pc = "done" /\ ~req[r].failed

\* `latest` holds an entry exactly for the stored emails, and each stored record
\* carries the name and a hash of the password of the last successful Register
\* or ResetPassword for its email.
StoredIsLatest ==
  /\ \A e \in DOMAIN latest : (latest[e] # NoSeen) <=> (FindUser(e) # 0)
  /\ \A i \in Indices(users) :
        /\ users[i].name = latest[users[i].email].name
        /\ Compare(latest[users[i].email].password, users[i].password)

\* C3: at most one user record per email, under any interleaving of Register
\* requests; a Register whose lookup finds the email stored is answered 409 (and
\* 201 otherwise) and leaves the stored records as the last Register or
\* ResetPassword wrote them; a Register for an email that an earlier, completed
\* Register stored is answered 409.
C3_UniqueEmail ==
  /\ \A i, j \in Indices(users) : i # j => users[i].email # users[j].email
  /\ StoredIsLatest
  /\ \A r \in Reqs :
        Answered(r, "register") =>
           req[r].status = IF req[r].seen # NoSeen THEN 409 ELSE 201
  /\ \A r1, r2 \in Reqs :
        ( /\ Answered(r1, "register") /\ req[r1].status = 201
          /\ r1 \in req[r2].after
          /\ Answered(r2, "register")
          /\ req[r2].body.email = req[r1].body.email )
        => req[r2].status = 409

\* A second Register of an email was answered 409 after the first was answered 201.
C3_Witness ==
  \E r1, r2 \in Reqs :
     /\ Answered(r1, "register") /\ req[r1].status = 201
     /\ r1 \in req[r2].after
     /\ Answered(r2, "register") /\ req[r2].status = 409
     /\ req[r2].body.email = req[r1].body.email
     /\ Len(users) = 1

\* C4: SignIn is answered 200, with the stored name and email and nothing else,
\* exactly when a user with the email is stored and the password is the one
\* written by the last successful Register or ResetPassword for the email (as of
\* the handler's lookup); else 401.  ResetPassword for an unknown email is
\* answered 404, and no user is stored without a successful Register.
C4_SignInFollowsLatest ==
  /\ StoredIsLatest
  /\ \A r \in Reqs :
        Answered(r, "signin") =>
           IF req[r].seen # NoSeen /\ req[r].body.password = req[r].seen.password
           THEN /\ req[r].status = 200
                /\ req[r].user = [name |-> req[r].seen.name, email |-> req[r].body.email]
           ELSE /\ req[r].status = 401
                /\ req[r].user = NoUser
  /\ \A r \in Reqs :
        (Answered(r, "resetpassword") /\ ~ResetFieldsMissing(req[r].body)) =>
           req[r].status = IF req[r].seen = NoSeen THEN 404 ELSE 200

\* After a completed ResetPassword to a new password, a SignIn with the old
\* password was answered 401.
C4_Witness ==
  \E r1, r2 \in Reqs :
     /\ Answered(r1, "resetpassword") /\ req[r1].status = 200
     /\ r1 \in req[r2].after
     /\ Answered(r2, "signin") /\ req[r2].status = 401
     /\ req[r2].body.email = req[r1].body.email
     /\ req[r2].body.password = "pw0" /\ req[r1].body.password = "pw2"

----------------------------------------------------------------------------
(* Claims about the listing. *)

Listed(g) == req[g].route = "appointments" /\ req[g].pc = "done" /\ req[g].status = 200

\* The list holds each of the first Len(l) stored records once (the collection
\* only grows, so these are the records stored when the find ran).
EveryStoredOnce(l) ==
  /\ Len(l) <= Len(appointments)
  /\ \E p \in Perms(Len(l)) : \A i \in Indices(l) : l[i] = appointments[p[i]]

\* The list holds the record of every booking answered before g arrived.
HoldsEarlierBookings(g) ==
  \A b \in req[g].after :
     Booked(b) => \E i \in Indices(req[g].list) : req[g].list[i] = req[b].appt

\* C5 as claimed: GET /appointments returns every stored appointment once, and
\* when the booking request of A was answered before the booking request of B
\* arrived, B's record comes before A's in the list.
C5_NewestFirstByRequestOrder ==
  \A g \in Reqs :
     Listed(g) =>
        /\ EveryStoredOnce(req[g].list)
        /\ HoldsEarlierBookings(g)
        /\ \A a, b \in req[g].after :
              (Booked(a) /\ Booked(b) /\ a \in req[b].after) =>
                 \A i, j \in Indices(req[g].list) :
                    (req[g].list[i] = req[a].appt /\ req[g].list[j] = req[b].appt) => j < i

\* C5 (amended): GET /appointments returns every stored appointment once, in
\* non-increasing order of createdAt, the clock value read when the handler
\* constructed the record before the save; a record with a later createdAt comes
\* before every record with an earlier one, and records with equal createdAt
\* come in any order.
C5_NewestFirstByCreatedAt ==
  \A g \in Reqs :
     Listed(g) =>
        /\ EveryStoredOnce(req[g].list)
        /\ HoldsEarlierBookings(g)
        /\ \A i, j \in Indices(req[g].list) :
              req[g].list[i].createdAt > req[g].list[j].createdAt => i < j

\* A listing of two bookings made one after the other at different clock
\* values: the later one is first.
C5_Witness ==
  \E g, a, b \in Reqs :
     /\ Listed(g) /\ Booked(a) /\ Booked(b)
     /\ a \in req[b].after /\ b \in req[g].after
     /\ req[a].appt.createdAt < req[b].appt.createdAt
     /\ req[g].list = <<req[b].appt, req[a].appt>>

----------------------------------------------------------------------------
(* Claims about what the requests leave alone. *)

\* Sequence t is sequence s with records added at the end.
Extends(s, t) == Len(t) > Len(s) /\ SubSeq(t, 1, Len(s)) = s

\* Request r takes a step and is answered with status st in it.
AnsweredWith(r, st) == req[r].pc # "done" /\ req'[r].pc = "done" /\ req'[r].status = st

\* A step changes users only by adding the record of a register request answered
\* 201, or by overwriting the password of the one user with the email of a
\* resetpassword request answered 200.
UsersFrame ==
  users' # users =>
     \E r \in Reqs :
        \/ /\ req[r].route = "register" /\ AnsweredWith(r, 201)
           /\ Extends(users, users') /\ Len(users') = Len(users) + 1
           /\ users'[Len(users')].email = req[r].body.email
        \/ /\ req[r].route = "resetpassword" /\ AnsweredWith(r, 200)
           /\ Len(users') = Len(users)
           /\ \A i \in Indices(users) :
                 IF users[i].email = req[r].body.email
                 THEN users'[i] = [users[i] EXCEPT !.password = users'[i].password]
                 ELSE users'[i] = users[i]

\* A step changes appointments only by adding the record of a booking answered 201.
AppointmentsFrame ==
  appointments' # appointments =>
     /\ \E r \in Reqs : req[r].route = "appointment" /\ AnsweredWith(r, 201)
     /\ Extends(appointments, appointments') /\ Len(appointments') = Len(appointments) + 1

\* A step that answers a request 400, 401, 404 or 409, and every step of a GET
\* handler, changes no collection.
RejectionsFrame ==
  \A r \in Reqs :
     (\/ \E st \in {400, 401, 404, 409} : AnsweredWith(r, st)
      \/ req'[r] # req[r] /\ req'[r].route \in {"doctors", "appointments"})
     => UNCHANGED <<users, doctors, appointments>>

\* The insertMany of preloadDoctors invocation c completes.
Seeds(c) == seed[c] = "insert" /\ seed'[c] = "done"

\* C10 as claimed: records are only added; a rejection changes nothing; the only
\* change to a record is the password of the user a reset names; and nothing done
\* for a request, whatever its route and answer, changes the doctors collection:
\* it changes only when the start-up seeding (invocation 0) fills it.
C10_RequestsLeaveDoctorsAlone ==
  [][/\ UsersFrame
     /\ AppointmentsFrame
     /\ RejectionsFrame
     /\ doctors' # doctors => (Seeds(0) /\ Extends(doctors, doctors'))]_vars

\* C10 (amended): records are only added; a step that answers 400, 401, 404 or
\* 409 and the steps of the GET handlers change no collection; the only change to
\* a record is the password of the user a reset names; no doctor record is
\* changed or removed, but doctor records are added by preloadDoctors, which in
\* api/index.js is launched by the connectDB call of a request of any route,
\* whatever the answer to that request.
C10_RecordsOnlyAdded ==
  [][/\ UsersFrame
     /\ AppointmentsFrame
     /\ RejectionsFrame
     /\ doctors' # doctors => ((\E c \in DOMAIN seed : Seeds(c)) /\ Extends(doctors, doctors'))]_vars

\* A reset answered 200 has overwritten the password of the user it names, next
\* to a user it left alone.
C10_Witness ==
  \E r \in Reqs :
     /\ req[r].route = "resetpassword" /\ req[r].pc = "done" /\ req[r].status = 200
     /\ Len(users) = 2 /\ users[1] = Bina
     /\ users[2].email = req[r].body.email
     /\ Compare(req[r].body.password, users[2].password)
     /\ Len(doctors) > 0

====
